---------------------------- MODULE Spec2Model ----------------------------
(***************************************************************************)
(* A model of tem (src/tem.py): a file-scaffolding command line tool.      *)
(*                                                                         *)
(* The module holds one state machine per part of the program:             *)
(*   SpecFormat  format_file (the placeholder substitutor)                 *)
(*   SpecParse   parse_command / parse_use_command                         *)
(*   SpecFind    find_temdir / find_template                               *)
(*   SpecUse     main running a UseCommand on a filesystem                 *)
(*   SpecList    main running a ListCommand                                *)
(* Text is a sequence of one-character strings, so that str.replace,       *)
(* str.partition and re.fullmatch are computed character by character.     *)
(***************************************************************************)
EXTENDS Integers, Sequences, FiniteSets, TLC

VARIABLES
    \* format_file
    orig,        \* the file's content before format_file
    arguments,   \* Dict[str, str] in insertion order: a sequence of <<key, value>>
    data,        \* the local `data`
    trace,       \* the values `data` has taken, oldest first (history)
    fpc,         \* "loop" | "done"
    file         \* the file's content on disk

fmtVars == <<orig, arguments, data, trace, fpc, file>>

VARIABLES
    \* parse_command
    cmdline_args,   \* sys.argv: argv0, the command word, then the arguments
    parsed          \* what parse_command gave: a command or a UsageError; NoValue before

parseVars == <<cmdline_args, parsed>>

VARIABLES
    \* the directories above the working directory, and find_template
    cwd,            \* Path('.').resolve(): the components below the root
    has_temdir,     \* per level 0..Len(cwd): what the child `TEMplates` is there
    templates,      \* name -> what that child of the nearest templates root is
    template_name,  \* find_template's template_name
    caller,         \* who called find_temdir: "find_template" | "ListCommand.run"
    search_path,    \* find_temdir's search_path
    temdir_path,    \* what find_temdir returned or raised; NoValue before
    template_path,  \* what find_template returned or raised; NoValue before
    rpc             \* "idle" | "find_temdir" | "find_template" | "returned" | "raised"

layoutVars == <<cwd, has_temdir, templates>>
findVars == <<layoutVars, template_name, caller, search_path, temdir_path, template_path, rpc>>

VARIABLES
    \* main, UseCommand.run, ListCommand.run
    manifests,      \* template name -> what its Temfile.yml holds
    entries,        \* name -> node: the children of the template directory `f`
    dest,           \* name -> node: the children of the working directory
    dest0,          \* dest when the command started (history)
    template,       \* what read_template returned; NoValue before
    visited,        \* the children iterdir() has yielded so far
    formatted,      \* how many members of files_to_format have been formatted
    exc,            \* the exception on its way up; NoValue when there is none
    stdout,         \* the lines printed to stdout
    stderr,         \* the lines printed to stderr
    exit_code,      \* the process's exit code; -1 while it runs
    mpc             \* where main is

treeVars == <<manifests, entries>>
mainVars == <<treeVars, dest, dest0, template, visited, formatted, exc, stdout, stderr,
              exit_code, mpc>>

vars == <<fmtVars, parseVars, findVars, mainVars>>

\* What each state machine leaves alone.
notFmt == <<parseVars, findVars, mainVars>>
notParse == <<fmtVars, findVars, mainVars>>
notFind == <<fmtVars, parseVars, mainVars>>

NoValue == [kind |-> "none"]

----------------------------------------------------------------------------
(* Strings *)

\* The seq of the characters of the chunks of cs, in order.
RECURSIVE Flatten(_)
Flatten(cs) == IF cs = <<>> THEN <<>> ELSE Head(cs) \o Flatten(Tail(cs))

\* All sequences over S of length at most n.
SeqsUpTo(S, n) == UNION {[1..k -> S] : k \in 0..n}

IsPrefix(p, s) == Len(p) <= Len(s) /\ SubSeq(s, 1, Len(p)) = p

\* A faulty variant of Replace: str.replace(old, new, 1), the first occurrence only.
ReplaceFirstOnly(s, old, new) ==
    LET hits == {i \in 1..(Len(s) - Len(old) + 1) : SubSeq(s, i, i + Len(old) - 1) = old}
    IN  IF hits = {} THEN s
        ELSE LET i == CHOOSE h \in hits : \A g \in hits : h <= g
             IN  SubSeq(s, 1, i - 1) \o new \o SubSeq(s, i + Len(old), Len(s))

\* str.replace(old, new) for a non-empty old: leftmost first, non-overlapping,
\* the replacement itself never rescanned.
RECURSIVE Replace(_, _, _)
Replace(s, old, new) ==
    IF Len(s) < Len(old) THEN s
    ELSE IF IsPrefix(old, s)
         THEN new \o Replace(SubSeq(s, Len(old) + 1, Len(s)), old, new)
         ELSE <<Head(s)>> \o Replace(Tail(s), old, new)

\* f'@@tem:{key}@@'
replaced_string(key) == <<"@", "@", "t", "e", "m", ":">> \o key \o <<"@", "@">>

----------------------------------------------------------------------------
(* format_file *)

MaxChunks == 6

Chunks == {<<"@", "@", "t", "e", "m", ":">>, <<"@", "@">>, <<"a">>, <<"b">>}
FmtKeys == {<<"a">>, <<"b">>}
FmtValues == {<<>>, <<"X">>, replaced_string(<<"b">>)}

Texts == {Flatten(cs) : cs \in SeqsUpTo(Chunks, MaxChunks)}

\* Dicts with keys in FmtKeys in every insertion order.
ArgDicts ==
    {d \in SeqsUpTo(FmtKeys \X FmtValues, Cardinality(FmtKeys)) :
        \A i, j \in 1..Len(d) : i # j => d[i][1] # d[j][1]}

FormatStart ==
    /\ orig \in Texts
    /\ arguments \in ArgDicts
    /\ data = orig             \* data = filepath.read_text()
    /\ trace = <<orig>>
    /\ fpc = "loop"
    /\ file = orig

\* One iteration of `for key, value in arguments.items()`.
FormatReplace ==
    /\ fpc = "loop"
    /\ Len(trace) <= Len(arguments)
    /\ LET kv == arguments[Len(trace)]
           new == Replace(data, replaced_string(kv[1]), kv[2])
       IN  /\ data' = new
           /\ trace' = Append(trace, new)
    /\ UNCHANGED <<orig, arguments, fpc, file, notFmt>>

\* filepath.write_text(data)
FormatWrite ==
    /\ fpc = "loop"
    /\ Len(trace) > Len(arguments)
    /\ file' = data
    /\ fpc' = "done"
    /\ UNCHANGED <<orig, arguments, data, trace, notFmt>>

FormatNext == FormatReplace \/ FormatWrite

----------------------------------------------------------------------------
(* parse_command, parse_use_command *)

MaxPairs == 2
MaxArgLen == 2

\* The characters r'[a-zA-Z0-9_-]' matches, among those the model writes.
KeyChars == {"a", "b", "A", "9", "_", "-"}
ArgChars == {"a", "=", " "}

\* Command line arguments after the template name: every string over ArgChars
\* of length at most MaxArgLen, and some longer ones.
RawPairs ==
    SeqsUpTo(ArgChars, MaxArgLen)
        \cup {<<"a", "=", "b">>, <<"a", "=", "=">>, <<"b", "=", "a", "=", "a">>,
              <<"A", "_", "-", "9", "=", "a", " ">>, <<"a", " ", "b", "=", "a">>}

\* Template names: plain, empty, `.`, `..`, and with each forbidden character.
TemplateNames ==
    {<<"f">>, <<"g">>, <<>>, <<".">>, <<".", ".">>,
     <<"f", "/", "g">>, <<"\\", "f">>, <<"f", "NUL">>}

CommandWords == {"use", "list", "help", "bogus"}

UsageError(message, offer_help) ==
    [kind |-> "UsageError", message |-> message, offer_help |-> offer_help]

UseCommand(name, key_value_args) ==
    [kind |-> "UseCommand", template_name |-> name, arguments |-> key_value_args]

HelpPointer == "For the list of available commands see tem help"

\* UsageError.__str__: the lines of the message.
UsageErrorStr(e) ==
    IF e.offer_help THEN <<e.message, HelpPointer>> ELSE <<e.message>>

\* `char in s`
Contains(s, char) == \E i \in 1..Len(s) : s[i] = char

\* str.partition('='): <<before, separator, after>> of the first '=', and
\* <<s, '', ''>> when there is none.
RECURSIVE Partition(_)
Partition(s) ==
    IF s = <<>> THEN <<<<>>, <<>>, <<>>>>
    ELSE IF Head(s) = "="
         THEN <<<<>>, <<"=">>, Tail(s)>>
         ELSE LET r == Partition(Tail(s))
              IN  IF r[2] = <<>> THEN <<s, <<>>, <<>>>>
                  ELSE <<<<Head(s)>> \o r[1], r[2], r[3]>>

\* re.fullmatch(r'[a-zA-Z0-9_-]+', key) is not None
KeyMatches(key) == Len(key) >= 1 /\ \A i \in 1..Len(key) : key[i] \in KeyChars

\* A faulty variant of DictSet: d.setdefault(key, value), an earlier value is kept.
DictSetDefault(d, key, value) ==
    IF \E i \in 1..Len(d) : d[i][1] = key THEN d ELSE Append(d, <<key, value>>)

\* d[key] = value on a dict kept in insertion order: a key already there keeps
\* its place and takes the new value.
DictSet(d, key, value) ==
    IF \E i \in 1..Len(d) : d[i][1] = key
    THEN [i \in 1..Len(d) |-> IF d[i][1] = key THEN <<key, value>> ELSE d[i]]
    ELSE Append(d, <<key, value>>)

\* The loop `for raw_kv_pair in raw_kv_pairs` and the return after it.
RECURSIVE ParsePairs(_, _, _)
ParsePairs(name, raw_kv_pairs, key_value_args) ==
    IF raw_kv_pairs = <<>> THEN UseCommand(name, key_value_args)
    ELSE LET kv == Partition(Head(raw_kv_pairs))
         IN  IF kv[2] = <<>>
             THEN UsageError("Template arguments must be key=value pairs", FALSE)
             ELSE IF ~KeyMatches(kv[1])
                  THEN UsageError("Invalid key", FALSE)
                  ELSE ParsePairs(name, Tail(raw_kv_pairs),
                                  DictSet(key_value_args, kv[1], kv[3]))

parse_use_command(args) ==
    IF Len(args) < 1 THEN UsageError("Template name must be specified", FALSE)
    ELSE IF \E char \in {"/", "\\", "NUL"} : Contains(Head(args), char)
         THEN UsageError("Invalid template name", FALSE)
         ELSE ParsePairs(Head(args), Tail(args), <<>>)

parse_command(argv) ==
    IF Len(argv) < 2 THEN UsageError("You must specify a command to run", TRUE)
    ELSE LET command == argv[2]
             args == SubSeq(argv, 3, Len(argv))
         IN  IF command = "use" THEN parse_use_command(args)
             ELSE IF command = "list" THEN [kind |-> "ListCommand"]
             ELSE IF command = "help" THEN [kind |-> "HelpCommand"]
             ELSE UsageError("Invalid command", TRUE)

\* The command lines: none, each command word alone, `use` with each name, and
\* `use` with a plain name and up to MaxPairs further arguments.
CommandLines ==
    {<<"tem">>}
        \cup {<<"tem", c>> : c \in CommandWords}
        \cup {<<"tem", "use", n>> : n \in TemplateNames}
        \cup {<<"tem", "use", <<"f">>>> \o kvs : kvs \in SeqsUpTo(RawPairs, MaxPairs)}

ParseStart ==
    /\ cmdline_args \in CommandLines
    /\ parsed = NoValue

\* command = parse_command(sys.argv)
Parse ==
    /\ parsed = NoValue
    /\ cmdline_args # <<>>
    /\ parsed' = parse_command(cmdline_args)
    /\ UNCHANGED <<cmdline_args, notParse>>

ParseNext == Parse

----------------------------------------------------------------------------
(* Paths: sequences of components, the root being the empty sequence *)

MaxDepth == 3

TEMplates == <<"TEMplates">>
DotDot == <<".", ".">>

\* The name of the directory at depth i of the working directory's path: one
\* name per depth, none of them `TEMplates`, `..` or a template's name.
DirName(i) == [j \in 1..(i + 2) |-> "d"]

\* pathlib's `path / name` for a name without separators: an empty name and
\* `.` add no component, `..` is kept as a component.
Join(path, name) == IF name \in {<<>>, <<".">>} THEN path ELSE Append(path, name)

\* Path.resolve() on a path whose links are resolved already: each `..` drops
\* the component before it, and the root is its own parent.
RECURSIVE Resolve(_)
Resolve(path) ==
    IF path = <<>> THEN <<>>
    ELSE LET front == Resolve(SubSeq(path, 1, Len(path) - 1))
         IN  IF path[Len(path)] = DotDot
             THEN SubSeq(front, 1, Len(front) - 1)
             ELSE Append(front, path[Len(path)])

\* path is the working directory or a directory above it.
IsAncestor(path) == Len(path) <= Len(cwd) /\ path = SubSeq(cwd, 1, Len(path))

Parent(path) == SubSeq(path, 1, Len(path) - 1)

\* Path.is_dir(), on the directories the model holds: the working directory's
\* ancestors, their `TEMplates` children, and the children of those.
IsDir(path) ==
    LET r == Resolve(path)
    IN  \/ IsAncestor(r)
        \/ /\ Len(r) >= 1
           /\ r[Len(r)] = TEMplates
           /\ IsAncestor(Parent(r))
           /\ has_temdir[Len(r) - 1] = "dir"
        \/ /\ Len(r) >= 2
           /\ r[Len(r) - 1] = TEMplates
           /\ IsAncestor(Parent(Parent(r)))
           /\ has_temdir[Len(r) - 2] = "dir"
           /\ r[Len(r)] \in DOMAIN templates
           /\ templates[r[Len(r)]] = "dir"

----------------------------------------------------------------------------
(* find_temdir, find_template *)

TemplateDoesNotExist == [kind |-> "TemplateDoesNotExist"]
TemdirDoesNotExist == [kind |-> "TemdirDoesNotExist"]
PathValue(path) == [kind |-> "path", path |-> path]

\* The names parse_use_command lets through.
AcceptedNames == {n \in TemplateNames : parse_use_command(<<n>>).kind = "UseCommand"}

\* The working directory, at each depth, and what `TEMplates` is on each level.
Layouts ==
    /\ cwd \in {[i \in 1..d |-> DirName(i)] : d \in 0..MaxDepth}
    /\ has_temdir \in [0..Len(cwd) -> {"none", "file", "dir"}]

\* find_template(template_name, Path('.')) is called.
FindCalled ==
    /\ caller = "find_template"
    /\ search_path = <<<<".">>>>
    /\ temdir_path = NoValue
    /\ template_path = NoValue
    /\ rpc = "find_temdir"

\* Every layout, every accepted name, every kind of would-be template.
FindStart ==
    /\ Layouts
    /\ templates \in [{<<"f">>, <<"g">>} -> {"none", "file", "dir"}]
    /\ template_name \in AcceptedNames
    /\ FindCalled

\* Every layout, with one name, which is a template.
FindTemdirStart ==
    /\ Layouts
    /\ templates = [n \in {<<"f">>, <<"g">>} |-> "dir"]
    /\ template_name = <<"f">>
    /\ FindCalled

\* The directory find_temdir looks in: search_path.resolve(), where `.` is the
\* working directory.
Resolved(path) == IF path = <<<<".">>>> THEN cwd ELSE Resolve(path)

\* find_temdir: `TEMplates` is a directory on this level: return it.
FindTemdirReturn ==
    /\ rpc = "find_temdir"
    /\ IsDir(Append(Resolved(search_path), TEMplates))
    /\ temdir_path' = PathValue(Append(Resolved(search_path), TEMplates))
    /\ rpc' = IF caller = "find_template" THEN "find_template" ELSE "returned"
    /\ UNCHANGED <<layoutVars, template_name, caller, search_path, template_path, notFind>>

\* A faulty variant of FindTemdirRaise: the root is given up on without a look.
FindTemdirRaiseUnchecked ==
    /\ rpc = "find_temdir"
    /\ Resolved(search_path) = <<>>
    /\ temdir_path' = TemdirDoesNotExist
    /\ rpc' = "raised"
    /\ UNCHANGED <<layoutVars, template_name, caller, search_path, template_path, notFind>>

\* find_temdir: no `TEMplates` on this level, which is the root: raise.
FindTemdirRaise ==
    /\ rpc = "find_temdir"
    /\ ~IsDir(Append(Resolved(search_path), TEMplates))
    /\ Resolved(search_path) = <<>>
    /\ temdir_path' = TemdirDoesNotExist
    /\ rpc' = "raised"
    /\ UNCHANGED <<layoutVars, template_name, caller, search_path, template_path, notFind>>

\* find_temdir: no `TEMplates` on this level: find_temdir(search_path / '..').
FindTemdirAscend ==
    /\ rpc = "find_temdir"
    /\ ~IsDir(Append(Resolved(search_path), TEMplates))
    /\ Resolved(search_path) # <<>>
    /\ search_path' = Append(Resolved(search_path), DotDot)
    /\ UNCHANGED <<layoutVars, template_name, caller, temdir_path, template_path, rpc, notFind>>

\* find_template, after find_temdir has returned.
FindTemplate ==
    /\ rpc = "find_template"
    /\ LET path == Join(temdir_path.path, template_name)
       IN  \/ /\ IsDir(path)
              /\ template_path' = PathValue(path)
              /\ rpc' = "returned"
           \/ /\ ~IsDir(path)
              /\ template_path' = TemplateDoesNotExist
              /\ rpc' = "raised"
    /\ UNCHANGED <<layoutVars, template_name, caller, search_path, temdir_path, notFind>>

FindNext ==
    \/ FindTemdirReturn
    \/ FindTemdirRaise
    \/ FindTemdirAscend
    \/ FindTemplate

----------------------------------------------------------------------------
(* Directory trees *)

File(content) == [kind |-> "file", content |-> content]
\* A symbolic link: its target as written, and the node the target resolves to
\* (NoValue for a dangling link).
Link(target, resolves) == [kind |-> "link", target |-> target, resolves |-> resolves]
\* A directory: children maps each child's name to its node.
Dir(children) == [kind |-> "dir", children |-> children]

NoChildren == [n \in {} |-> NoValue]

\* Path.is_dir(): a link is followed.
is_dir(node) ==
    \/ node.kind = "dir"
    \/ node.kind = "link" /\ node.resolves.kind = "dir"

\* What shutil.copytree(src, dst, symlinks=True) makes of the children of a
\* directory: a link is made again with the same target, a directory is copied
\* in turn, a file is copied.
RECURSIVE CopyChildren(_)
CopyChildren(children) ==
    [n \in DOMAIN children |->
        IF children[n].kind = "link"
        THEN Link(children[n].target, children[n].resolves)
        ELSE IF children[n].kind = "dir"
             THEN Dir(CopyChildren(children[n].children))
             ELSE File(children[n].content)]

\* shutil.copytree(src, dst, symlinks=True, ...) where dst does not exist: dst
\* is made a directory and filled from what os.scandir(src) lists, which for a
\* src that is a link to a directory is the directory it points to.
copytree(src) ==
    Dir(CopyChildren(IF src.kind = "link" THEN src.resolves.children ELSE src.children))

----------------------------------------------------------------------------
(* main, UseCommand.run, ListCommand.run *)

Exception(class) == [kind |-> "exception", class |-> class]
\* What a call that did not raise returned.
Ok(value) == [kind |-> "ok", value |-> value]

\* The subclasses of TemError.
TemErrors ==
    {"UsageError", "TemplateDoesNotExist", "TemdirDoesNotExist", "InvalidTemplateError"}

excluded_files == {"Temfile.yml"}

Template(name, template_dir, files_to_format) ==
    [kind |-> "Template", name |-> name, template_dir |-> template_dir,
     files_to_format |-> files_to_format]

\* read_template(path) for path the child `name` of the templates root.
read_template(name, path) ==
    IF templates[name] # "dir" THEN Exception("NotADirectoryError")
    ELSE LET m == manifests[name]
         IN  IF m.state = "missing" THEN Exception("FileNotFoundError")
             ELSE IF m.state = "unparsable" THEN Exception("YAMLError")
             ELSE IF m.state = "not_dict" THEN Exception("InvalidTemplateError")
             ELSE IF m.state = "format_not_list" THEN Exception("InvalidTemplateError")
             ELSE IF m.state = "member_not_str" THEN Exception("InvalidTemplateError")
             ELSE IF m.state = "no_format" THEN Template(name, path, <<>>)
             ELSE Template(name, path, m.format)

mainRest == <<treeVars, dest, dest0, template, visited, formatted, stdout, stderr, exit_code>>

\* main: parse_command raised a UsageError.
MainUsageError ==
    /\ mpc = "start"
    /\ parsed.kind = "UsageError"
    /\ exc' = Exception("UsageError")
    /\ mpc' = "raising"
    /\ UNCHANGED <<mainRest, fmtVars, parseVars, findVars>>

\* UseCommand.run: template_path = find_template(self.template_name, Path('.'))
UseFindTemplate ==
    /\ mpc = "start"
    /\ parsed.kind = "UseCommand"
    /\ template_name' = parsed.template_name
    /\ caller' = "find_template"
    /\ search_path' = <<<<".">>>>
    /\ rpc' = "find_temdir"
    /\ mpc' = "find_template"
    /\ UNCHANGED <<mainRest, exc, fmtVars, parseVars, layoutVars, temdir_path, template_path>>

\* find_template raised.
UseFindRaised ==
    /\ mpc = "find_template"
    /\ rpc = "raised"
    /\ exc' = Exception(IF temdir_path.kind = "path" THEN template_path.kind
                        ELSE temdir_path.kind)
    /\ mpc' = "raising"
    /\ UNCHANGED <<mainRest, fmtVars, parseVars, findVars>>

\* UseCommand.run: template = read_template(template_path)
UseReadTemplate ==
    /\ mpc = "find_template"
    /\ rpc = "returned"
    /\ LET t == read_template(template_name, template_path.path)
       IN  \/ /\ t.kind = "Template"
              /\ template' = t
              /\ mpc' = "copy"
              /\ exc' = exc
           \/ /\ t.kind = "exception"
              /\ exc' = t
              /\ mpc' = "raising"
              /\ template' = template
    /\ UNCHANGED <<treeVars, dest, dest0, visited, formatted, stdout, stderr, exit_code,
                   fmtVars, parseVars, findVars>>

\* One turn of copy_template_files's loop, for the child `name`: the working
\* directory's children after it, or the exception it raises.
CopyEntry(name, node) ==
    IF name \in excluded_files THEN Ok(dest)
    ELSE IF is_dir(node)
         \* shutil.copytree: os.makedirs(dst) fails on a name that exists
         THEN IF name \in DOMAIN dest THEN Exception("FileExistsError")
              ELSE Ok((name :> copytree(node)) @@ dest)
         \* shutil.copy(filepath, destination, follow_symlinks=False)
         ELSE IF node.kind = "link"
              \* os.symlink(os.readlink(src), dst) fails on a name that exists
              THEN IF name \in DOMAIN dest THEN Exception("FileExistsError")
                   ELSE Ok((name :> Link(node.target, node.resolves)) @@ dest)
              \* open(dst, 'wb') truncates a file and fails on a directory
              ELSE IF name \in DOMAIN dest /\ dest[name].kind = "dir"
                   THEN Exception("IsADirectoryError")
                   ELSE Ok((name :> File(node.content)) @@ dest)

\* copy_template_files: one turn of `for filepath in template_dir.iterdir()`,
\* in whatever order iterdir yields the children.
UseCopy ==
    /\ mpc = "copy"
    /\ \E name \in DOMAIN entries \ visited :
        LET r == CopyEntry(name, entries[name])
        IN  /\ visited' = visited \cup {name}
            /\ \/ /\ r.kind = "ok"
                  /\ dest' = r.value
                  /\ UNCHANGED <<exc, mpc>>
               \/ /\ r.kind = "exception"
                  /\ exc' = r
                  /\ mpc' = "raising"
                  /\ dest' = dest
    /\ UNCHANGED <<treeVars, dest0, template, formatted, stdout, stderr, exit_code,
                   fmtVars, parseVars, findVars>>

\* A faulty variant of UseCopyReturn: the loop is left after its first turn.
UseCopyReturnEarly ==
    /\ mpc = "copy"
    /\ visited # {}
    /\ mpc' = "format"
    /\ UNCHANGED <<mainRest, exc, fmtVars, parseVars, findVars>>

\* copy_template_files returns: iterdir has no more children.
UseCopyReturn ==
    /\ mpc = "copy"
    /\ visited = DOMAIN entries
    /\ mpc' = "format"
    /\ UNCHANGED <<mainRest, exc, fmtVars, parseVars, findVars>>

\* What filepath.read_text() gives for the child `name` of the working
\* directory: the text, or the exception.
read_text(name) ==
    IF name \notin DOMAIN dest THEN Exception("FileNotFoundError")
    ELSE LET node == IF dest[name].kind = "link" THEN dest[name].resolves ELSE dest[name]
         IN  IF node.kind = "file" THEN Ok(node.content)
             ELSE IF node.kind = "dir" THEN Exception("IsADirectoryError")
             ELSE Exception("FileNotFoundError")

\* UseCommand.run: format_file(filepath, self.arguments) is called for the next
\* member of files_to_format and reads the file.
UseFormatFile ==
    /\ mpc = "format"
    /\ formatted < Len(template.files_to_format)
    /\ LET r == read_text(template.files_to_format[formatted + 1])
       IN  \/ /\ r.kind = "ok"
              /\ orig' = r.value /\ data' = r.value
              /\ trace' = <<r.value>> /\ file' = r.value
              /\ arguments' = parsed.arguments
              /\ fpc' = "loop"
              /\ mpc' = "format_file"
              /\ exc' = exc
           \/ /\ r.kind = "exception"
              /\ exc' = r
              /\ mpc' = "raising"
              /\ UNCHANGED fmtVars
    /\ UNCHANGED <<mainRest, parseVars, findVars>>

\* filepath.write_text(data) for the child `name` of the working directory.
write_text(name, text) ==
    IF dest[name].kind = "link"
    THEN (name :> Link(dest[name].target, File(text))) @@ dest
    ELSE (name :> File(text)) @@ dest

\* format_file has written the file and returns.
UseFormatReturn ==
    /\ mpc = "format_file"
    /\ fpc = "done"
    /\ dest' = write_text(template.files_to_format[formatted + 1], file)
    /\ formatted' = formatted + 1
    /\ fpc' = "idle"
    /\ mpc' = "format"
    /\ UNCHANGED <<treeVars, dest0, template, visited, exc, stdout, stderr, exit_code,
                   orig, arguments, data, trace, file, parseVars, findVars>>

\* UseCommand.run returns: every member of files_to_format is formatted.
UseReturn ==
    /\ mpc = "format"
    /\ formatted = Len(template.files_to_format)
    /\ mpc' = "returned"
    /\ UNCHANGED <<mainRest, exc, fmtVars, parseVars, findVars>>

\* ListCommand.run: temdir_path = find_temdir(Path('.'))
ListFindTemdir ==
    /\ mpc = "start"
    /\ parsed.kind = "ListCommand"
    /\ caller' = "ListCommand.run"
    /\ search_path' = <<<<".">>>>
    /\ rpc' = "find_temdir"
    /\ mpc' = "list"
    /\ UNCHANGED <<mainRest, exc, fmtVars, parseVars, layoutVars, template_name,
                   temdir_path, template_path>>

\* find_temdir raised.
ListFindRaised ==
    /\ mpc = "list"
    /\ rpc = "raised"
    /\ exc' = Exception(temdir_path.kind)
    /\ mpc' = "raising"
    /\ UNCHANGED <<mainRest, fmtVars, parseVars, findVars>>

\* The children of the templates root.
TemdirChildren == {n \in DOMAIN templates : templates[n] # "none"}

\* ListCommand.run: one turn of `for template_path in temdir_path.iterdir()`.
ListRead ==
    /\ mpc = "list"
    /\ rpc = "returned"
    /\ \E name \in TemdirChildren \ visited :
        LET t == read_template(name, Append(temdir_path.path, name))
        IN  /\ visited' = visited \cup {name}
            /\ \/ /\ t.kind = "Template"
                  /\ stdout' = Append(stdout, t.name)
                  /\ UNCHANGED <<exc, mpc>>
               \/ /\ t.kind = "exception"
                  /\ exc' = t
                  /\ mpc' = "raising"
                  /\ stdout' = stdout
    /\ UNCHANGED <<treeVars, dest, dest0, template, formatted, stderr, exit_code,
                   fmtVars, parseVars, findVars>>

\* ListCommand.run returns: iterdir has no more children.
ListReturn ==
    /\ mpc = "list"
    /\ rpc = "returned"
    /\ visited = TemdirChildren
    /\ mpc' = "returned"
    /\ UNCHANGED <<mainRest, exc, fmtVars, parseVars, findVars>>

\* main: command.run() returned; the process ends with exit code 0.
MainReturn ==
    /\ mpc = "returned"
    /\ exit_code' = 0
    /\ mpc' = "exited"
    /\ UNCHANGED <<treeVars, dest, dest0, template, visited, formatted, exc, stdout, stderr,
                   fmtVars, parseVars, findVars>>

\* main: `except TemError as e`: print('Error:', e, file=sys.stderr); sys.exit(1)
MainHandle ==
    /\ mpc = "raising"
    /\ exc.class \in TemErrors
    /\ stderr' = Append(stderr, <<"Error:", exc.class>>)
    /\ exit_code' = 1
    /\ mpc' = "exited"
    /\ UNCHANGED <<treeVars, dest, dest0, template, visited, formatted, exc, stdout,
                   fmtVars, parseVars, findVars>>

\* main: the exception is no TemError, so no except clause takes it: it leaves
\* main, and the interpreter prints its traceback and ends with exit code 1.
MainUncaught ==
    /\ mpc = "raising"
    /\ exc.class \notin TemErrors
    /\ stderr' = Append(stderr, <<"Traceback (most recent call last):", exc.class>>)
    /\ exit_code' = 1
    /\ mpc' = "exited"
    /\ UNCHANGED <<treeVars, dest, dest0, template, visited, formatted, exc, stdout,
                   fmtVars, parseVars, findVars>>

UseNext ==
    \/ Parse
    \/ MainUsageError
    \/ UseFindTemplate
    \/ FindTemdirReturn
    \/ FindTemdirRaise
    \/ FindTemdirAscend
    \/ FindTemplate
    \/ UseFindRaised
    \/ UseReadTemplate
    \/ UseCopy
    \/ UseCopyReturn
    \/ UseFormatFile
    \/ FormatReplace
    \/ FormatWrite
    \/ UseFormatReturn
    \/ UseReturn
    \/ MainReturn
    \/ MainHandle
    \/ MainUncaught

ListNext ==
    \/ Parse
    \/ ListFindTemdir
    \/ FindTemdirReturn
    \/ FindTemdirRaise
    \/ FindTemdirAscend
    \/ ListFindRaised
    \/ ListRead
    \/ ListReturn
    \/ MainReturn
    \/ MainHandle
    \/ MainUncaught

----------------------------------------------------------------------------
(* The runs of `tem use` and `tem list` that are looked at *)

TokenText == replaced_string(<<"a">>) \o <<"b">>
PlainText == <<"a">>

\* Children of a directory of the template: one file; a manifest of its own, a
\* dangling link and a directory holding a link to a file.
OneFile == ("n" :> File(PlainText))
WithLinks ==
    ("Temfile.yml" :> File(PlainText))
        @@ ("l" :> Link("nowhere", NoValue))
        @@ ("d" :> Dir("k" :> Link("../n", File(PlainText))))

\* What the child `x` of the template may be; NoValue: there is none.
XNodes ==
    {NoValue, File(TokenText), Dir(OneFile), Dir(WithLinks),
     Link("y", File(PlainText)), Link("elsewhere", Dir(WithLinks)), Link("nowhere", NoValue)}

YNodes == {NoValue, File(PlainText), Dir(OneFile)}

\* What Temfile.yml may hold.
Manifests ==
    {[state |-> s] : s \in {"missing", "unparsable", "not_dict", "format_not_list",
                            "member_not_str", "no_format"}}
        \cup {[state |-> "valid", format |-> f] :
                f \in {<<>>, <<"x">>, <<"z">>, <<"y", "x">>}}

\* The directory with the children x, y and Temfile.yml that are not NoValue.
DirOf(x, y, m) ==
    LET node(n) == IF n = "x" THEN x ELSE IF n = "y" THEN y ELSE m
    IN  [n \in {c \in {"x", "y", "Temfile.yml"} : node(c) # NoValue} |-> node(n)]

UseCommandLines ==
    {<<"tem", "use">>,
     <<"tem", "use", <<"f">>>>,
     <<"tem", "use", <<"g">>>>,
     <<"tem", "use", <<"f">>, <<"a">>>>,
     <<"tem", "use", <<"f">>, <<"a", "=", "X">>>>}

MainStart ==
    /\ parsed = NoValue
    /\ template = NoValue /\ visited = {} /\ formatted = 0 /\ exc = NoValue
    /\ stdout = <<>> /\ stderr = <<>> /\ exit_code = -1 /\ mpc = "start"
    /\ template_name = <<>> /\ caller = "" /\ search_path = <<>>
    /\ temdir_path = NoValue /\ template_path = NoValue /\ rpc = "idle"
    /\ dest0 = dest

\* `tem use ...` in a directory one below the root; `f` is a template, or a
\* file, with every manifest and every choice of children; `g` does not exist.
UseStart ==
    /\ cmdline_args \in UseCommandLines
    /\ cwd = <<DirName(1)>>
    /\ has_temdir \in [0..1 -> {"none", "dir"}]
    /\ templates \in {(<<"f">> :> k) @@ (<<"g">> :> "none") : k \in {"dir", "file"}}
    /\ \E m \in Manifests :
        /\ manifests = (<<"f">> :> m) @@ (<<"g">> :> [state |-> "missing"])
        /\ \E x \in XNodes, y \in YNodes :
            entries = DirOf(x, y, IF m.state = "missing" THEN NoValue ELSE File(PlainText))
    /\ \E x \in {NoValue, File(PlainText), Dir(NoChildren)}, y \in {NoValue, File(TokenText)} :
        dest = DirOf(x, y, NoValue)
    /\ MainStart

\* `tem list` at each depth, each child of the templates root being absent, a
\* file or a directory, with a manifest that is valid, invalid or missing.
ListStart ==
    /\ cmdline_args = <<"tem", "list">>
    /\ cwd \in {[i \in 1..d |-> DirName(i)] : d \in 0..1}
    /\ has_temdir \in [0..Len(cwd) -> {"none", "dir"}]
    /\ templates \in [{<<"f">>, <<"g">>} -> {"none", "file", "dir"}]
    /\ manifests \in [{<<"f">>, <<"g">>} ->
                        {[state |-> s] : s \in {"no_format", "not_dict", "missing"}}]
    /\ entries = <<>>
    /\ dest = <<>>
    /\ MainStart

----------------------------------------------------------------------------
(* Specifications *)

FormatIdle ==
    /\ orig = <<>> /\ arguments = <<>> /\ data = <<>>
    /\ trace = <<>> /\ fpc = "idle" /\ file = <<>>

ParseIdle == cmdline_args = <<>> /\ parsed = NoValue

FindIdle ==
    /\ cwd = <<>> /\ has_temdir = <<>> /\ templates = <<>> /\ template_name = <<>>
    /\ caller = "" /\ search_path = <<>> /\ temdir_path = NoValue
    /\ template_path = NoValue /\ rpc = "idle"

MainIdle ==
    /\ manifests = <<>> /\ entries = <<>> /\ dest = <<>> /\ dest0 = <<>>
    /\ template = NoValue /\ visited = {} /\ formatted = 0 /\ exc = NoValue
    /\ stdout = <<>> /\ stderr = <<>> /\ exit_code = -1 /\ mpc = "idle"

FormatInit == FormatStart /\ ParseIdle /\ FindIdle /\ MainIdle

SpecFormat == FormatInit /\ [][FormatNext]_vars

ParseInit == ParseStart /\ FormatIdle /\ FindIdle /\ MainIdle

SpecParse == ParseInit /\ [][ParseNext]_vars

FindInit == FindStart /\ FormatIdle /\ ParseIdle /\ MainIdle

SpecFind == FindInit /\ [][FindNext]_vars

UseInit == UseStart /\ FormatIdle

SpecUse == UseInit /\ [][UseNext]_vars

ListInit == ListStart /\ FormatIdle

SpecList == ListInit /\ [][ListNext]_vars

FindTemdirInit == FindTemdirStart /\ FormatIdle /\ ParseIdle /\ MainIdle

\* find_temdir runs to its end: nothing else is scheduled and no step blocks.
SpecFindFair == FindTemdirInit /\ [][FindNext]_vars /\ WF_vars(FindNext)


----------------------------------------------------------------------------
(* Properties of format_file *)

\* The places in s where the token of key starts.
Occurrences(s, key) ==
    {i \in 1..(Len(s) - Len(replaced_string(key)) + 1) :
        SubSeq(s, i, i + Len(replaced_string(key)) - 1) = replaced_string(key)}

Supplied == {arguments[i][1] : i \in 1..Len(arguments)}

ValueOf(key) == (CHOOSE kv \in {arguments[i] : i \in 1..Len(arguments)} : kv[1] = key)[2]

\* s with the token occurrences of the supplied keys replaced by their values,
\* all at once, reading s left to right: nothing a value brings in is looked at.
RECURSIVE Simultaneous(_)
Simultaneous(s) ==
    IF s = <<>> THEN <<>>
    ELSE LET here == {k \in Supplied : IsPrefix(replaced_string(k), s)}
         IN  IF here # {}
             THEN LET k == CHOOSE x \in here : TRUE
                  IN  ValueOf(k) \o
                      Simultaneous(SubSeq(s, Len(replaced_string(k)) + 1, Len(s)))
             ELSE <<Head(s)>> \o Simultaneous(Tail(s))

\* Every token occurrence of the original has been dealt with as the claim says.
EveryTokenHandled ==
    /\ file = Simultaneous(orig)
    /\ \A k \in FmtKeys \ Supplied :
           Cardinality(Occurrences(file, k)) >= Cardinality(Occurrences(orig, k))

\* No two token occurrences of s share a character.
NoOverlap(s) ==
    \A k1, k2 \in FmtKeys :
        \A i \in Occurrences(s, k1), j \in Occurrences(s, k2) :
            (i < j => i + Len(replaced_string(k1)) <= j)

\* No iteration produces a new occurrence of the token of a key applied later.
NoCascade ==
    \A i \in 1..Len(arguments) :
        i + 1 <= Len(trace) =>
            \A j \in (i + 1)..Len(arguments) :
                Cardinality(Occurrences(trace[i + 1], arguments[j][1]))
                    = Cardinality(Occurrences(trace[i], arguments[j][1]))

\* C1 (as stated): after format_file every token of a supplied key that the
\* original content holds is replaced by the key's value and every token of a
\* key not supplied is still there, for every content and every arguments.
C1_AsStated == fpc = "done" => EveryTokenHandled

\* C1 (amended): the same, for contents whose token occurrences do not overlap
\* and arguments none of whose replacements produces the token of a later key.
C1_SequentialReplace ==
    (fpc = "done" /\ NoOverlap(orig) /\ NoCascade) => EveryTokenHandled

\* C1 witness: a content with a token of a supplied key and a token of a key not
\* supplied, none overlapping, has been formatted and has changed.
C1_Witness ==
    /\ fpc = "done"
    /\ NoOverlap(orig) /\ NoCascade
    /\ \E k \in Supplied : Occurrences(orig, k) # {}
    /\ \E k \in FmtKeys \ Supplied : Occurrences(orig, k) # {}
    /\ file # orig

----------------------------------------------------------------------------
(* Properties of parse_command *)

\* The command line is `use <name> arg1 ... argn` with a name free of the
\* forbidden characters.
IsUseWithValidName ==
    /\ Len(cmdline_args) >= 3
    /\ cmdline_args[2] = "use"
    /\ \A i \in 1..Len(cmdline_args[3]) : cmdline_args[3][i] \notin {"/", "\\", "NUL"}

GivenPairs == SubSeq(cmdline_args, 4, Len(cmdline_args))

HasEq(arg) == \E i \in 1..Len(arg) : arg[i] = "="

FirstEq(arg) == CHOOSE i \in 1..Len(arg) : arg[i] = "=" /\ \A j \in 1..(i - 1) : arg[j] # "="

KeyOf(arg) == SubSeq(arg, 1, FirstEq(arg) - 1)

TextAfterFirstEq(arg) == SubSeq(arg, FirstEq(arg) + 1, Len(arg))

Malformed(arg) ==
    \/ ~HasEq(arg)
    \/ KeyOf(arg) = <<>>
    \/ \E i \in 1..Len(KeyOf(arg)) : KeyOf(arg)[i] \notin KeyChars

\* The last argument that carries key.
LastWith(key) ==
    CHOOSE i \in 1..Len(GivenPairs) :
        /\ KeyOf(GivenPairs[i]) = key
        /\ \A j \in (i + 1)..Len(GivenPairs) : KeyOf(GivenPairs[j]) # key

\* C6: parse_use_command on a valid name fails with a usage error iff some
\* argument has no `=` or a key outside [A-Za-z0-9_-]+; otherwise it returns a
\* Use command mapping exactly the keys given, each to the text after the first
\* `=` of the last argument that carries it.
C6_LastValueWins ==
    (parsed # NoValue /\ IsUseWithValidName) =>
        /\ parsed.kind \in {"UsageError", "UseCommand"}
        /\ parsed.kind = "UsageError" <=>
               \E i \in 1..Len(GivenPairs) : Malformed(GivenPairs[i])
        /\ parsed.kind = "UseCommand" =>
               LET d == parsed.arguments
               IN  /\ parsed.template_name = cmdline_args[3]
                   /\ \A i, j \in 1..Len(d) : i # j => d[i][1] # d[j][1]
                   /\ {d[i][1] : i \in 1..Len(d)}
                          = {KeyOf(GivenPairs[i]) : i \in 1..Len(GivenPairs)}
                   /\ \A i \in 1..Len(d) :
                          d[i][2] = TextAfterFirstEq(GivenPairs[LastWith(d[i][1])])

\* C6 witness: a key given twice with two values has been parsed into a command.
C6_Witness ==
    /\ parsed # NoValue /\ IsUseWithValidName
    /\ parsed.kind = "UseCommand"
    /\ \E i, j \in 1..Len(GivenPairs) :
           /\ i < j
           /\ KeyOf(GivenPairs[i]) = KeyOf(GivenPairs[j])
           /\ TextAfterFirstEq(GivenPairs[i]) # TextAfterFirstEq(GivenPairs[j])

\* C7: `tem use` without a template name fails with a usage error whose printed
\* message carries the pointer to `tem help`.
C7_MissingNameOffersHelp ==
    (parsed # NoValue /\ Len(cmdline_args) = 2 /\ cmdline_args[2] = "use") =>
        /\ parsed.kind = "UsageError"
        /\ \E i \in 1..Len(UsageErrorStr(parsed)) : UsageErrorStr(parsed)[i] = HelpPointer

----------------------------------------------------------------------------
(* Properties of find_temdir and find_template *)

\* The levels, counted from the root, that have a child directory `TEMplates`.
LevelsWithTemdir == {l \in 0..Len(cwd) : has_temdir[l] = "dir"}

NearestLevel == CHOOSE l \in LevelsWithTemdir : \A m \in LevelsWithTemdir : m <= l

\* What find_temdir is to give on this layout.
ExpectedTemdir ==
    IF LevelsWithTemdir = {} THEN TemdirDoesNotExist
    ELSE PathValue(Append(SubSeq(cwd, 1, NearestLevel), TEMplates))

\* C8: find_temdir ends for every start directory, with the `TEMplates` of the
\* nearest level that has one as a directory (the root included), and with
\* templates-root-not-found iff no level has one.
C8_FindTemdirEnds ==
    /\ [](temdir_path # NoValue => temdir_path = ExpectedTemdir)
    /\ <>(temdir_path # NoValue)

\* C8 witness: from the deepest working directory the search has climbed to the
\* root, the one level with a `TEMplates` directory, and returned it.
C8_Witness ==
    /\ Len(cwd) = MaxDepth
    /\ LevelsWithTemdir = {0}
    /\ temdir_path = PathValue(<<TEMplates>>)

\* C10: the directory find_template returns for an accepted name is the child
\* of the templates root that bears that name.
C10_ImmediateChild ==
    template_path.kind = "path" =>
        /\ Resolve(template_path.path) = Append(temdir_path.path, template_name)
        /\ Parent(Resolve(template_path.path)) = temdir_path.path

----------------------------------------------------------------------------
(* Properties of main, UseCommand.run and ListCommand.run *)

\* C2: a run of `tem use` ends with exit code 0, or, on any failure, with exit
\* code 1 and `Error: <message>` printed to stderr by main's handler.
C2_EveryFailureHandled ==
    mpc = "exited" =>
        \/ exit_code = 0 /\ exc = NoValue /\ stderr = <<>>
        \/ exit_code = 1 /\ exc # NoValue /\ stderr = <<<<"Error:", exc.class>>>>

\* A link of the template is in the copy as a link with the same target, at the
\* top and in every directory below.
RECURSIVE LinksKept(_, _)
LinksKept(src, dst) ==
    IF src.kind = "link"
    THEN dst.kind = "link" /\ dst.target = src.target
    ELSE IF src.kind = "dir"
         THEN /\ dst.kind = "dir"
              /\ \A c \in DOMAIN src.children :
                     /\ c \in DOMAIN dst.children
                     /\ LinksKept(src.children[c], dst.children[c])
         ELSE TRUE

\* copy_template_files has returned and no file has been formatted yet.
CopyDone == mpc = "format" /\ formatted = 0

\* C3: after copy_template_files every symbolic link of the template, at the
\* top or nested, to a file, to a directory or dangling, is a symbolic link with
\* the same target in the destination.
C3_LinksStayLinks ==
    CopyDone =>
        \A n \in DOMAIN entries \ excluded_files :
            n \in DOMAIN dest /\ LinksKept(entries[n], dest[n])

\* The children of the templates root that are directories, and those among
\* them whose manifest is valid.
TemplateDirs == {n \in DOMAIN templates : templates[n] = "dir"}
ValidTemplates == {n \in TemplateDirs : manifests[n].state \in {"no_format", "valid"}}

\* C4: when the templates root is found, `tem list` prints exactly the names of
\* its subdirectories, one per line, if all have a valid manifest (entries that
\* are not directories are no templates), and fails with nothing printed to
\* stdout if one has not.
C4_AllOrNothing ==
    (mpc = "exited" /\ temdir_path.kind = "path") =>
        IF ValidTemplates = TemplateDirs
        THEN /\ exit_code = 0
             /\ Len(stdout) = Cardinality(TemplateDirs)
             /\ {stdout[i] : i \in 1..Len(stdout)} = TemplateDirs
        ELSE exit_code = 1 /\ stdout = <<>>

\* C5: for a valid manifest with an empty or absent `format` and a destination
\* without colliding names, after `use` the destination holds every child of
\* the template but the top-level Temfile.yml, each identical to the source,
\* holds no Temfile.yml, and no file has been rewritten by the substitutor.
C5_CopiedUnmodified ==
    (/\ exit_code = 0
     /\ template.files_to_format = <<>>
     /\ DOMAIN dest0 \cap DOMAIN entries = {}) =>
        /\ \A n \in DOMAIN entries \ {"Temfile.yml"} :
               n \in DOMAIN dest /\ dest[n] = entries[n]
        /\ "Temfile.yml" \notin DOMAIN dest
        /\ \A n \in DOMAIN dest0 : n \in DOMAIN dest /\ dest[n] = dest0[n]
        /\ formatted = 0 /\ fpc = "idle"

\* Resolution or the reading of the manifest has failed.
FailedBeforeCopy == exc # NoValue /\ template = NoValue

\* C9: UseCommand.run resolves, reads the manifest, copies, formats, in this
\* order, and a failure prevents every later step: nothing is copied or
\* formatted when resolution or the manifest fails; no file is formatted unless
\* every child has been copied without a failure; after a failure what has been
\* copied and formatted stays as it is.
C9_StepsInOrder ==
    /\ [](FailedBeforeCopy => dest = dest0 /\ visited = {} /\ formatted = 0)
    /\ [](visited # {} => template # NoValue /\ template_path.kind = "path")
    /\ []((formatted > 0 \/ mpc = "format_file") =>
            /\ visited = DOMAIN entries
            /\ \A n \in DOMAIN entries \ excluded_files : n \in DOMAIN dest)
    /\ [][mpc' = "format_file" => exc = NoValue /\ visited = DOMAIN entries]_vars
    /\ [][exc' # NoValue => dest' = dest /\ formatted' = formatted]_vars
    /\ [][exc # NoValue => visited' = visited /\ template' = template]_vars

\* C9 witness: a run has failed in the formatting of its second file, with the
\* first file formatted and every child copied.
C9_Witness ==
    /\ exit_code = 1
    /\ formatted = 1
    /\ visited = DOMAIN entries
    /\ dest # dest0

\* C9 witness: a run has failed in the copy of its second child, the first one
\* staying copied.
C9_WitnessCopyFailed ==
    /\ exit_code = 1
    /\ template # NoValue
    /\ formatted = 0
    /\ visited # DOMAIN entries
    /\ dest # dest0

=============================================================================
